---- MODULE Spec2Model ----
(***************************************************************************)
(* State-machine model of socialregistration/views.py: the views Setup,    *)
(* Logout, OAuthRedirect, OAuthCallback and SetupCallback, each request    *)
(* handled one at a time against a shared database (users, profiles) and   *)
(* one session per browser.                                                *)
(*                                                                         *)
(* The helpers of the SocialRegistration mixin (socialregistration/        *)
(* mixins.py), the setup form and the authentication backend are not part  *)
(* of views.py; they are modelled from the specification's collaborator    *)
(* contracts (sections 4 and 6).                                           *)
(*                                                                         *)
(* An optional value (a session key that may be missing) is a sequence of  *)
(* length 0 or 1.                                                          *)
(***************************************************************************)
EXTENDS Integers, Sequences, FiniteSets, TLC

\* ---- bounds of the model
NumBrowsers == 2
NumIdents == 2
MaxUsers == 2
MaxProfiles == 3

Browsers == 1..NumBrowsers
Idents == 1..NumIdents

\* ---- URLs and messages
LOGIN_REDIRECT_URL == "/"
AppUrl == "/app"
SetupUrl == "socialregistration:setup"
ProviderUrl == "provider-authorization-url"
NextStepUrl == "next-step"
LOGOUT_REDIRECT_URL == "/"

MsgSessionExpired == "Session expired."
MsgAlreadyConnected == "This profile is already connected to another user account."
MsgSignupsDisabled == "We are not currently accepting new OpenID signups."
MsgMissingGet == "Social profile is missing from your session."
MsgMissingPost == "A social profile is missing from your session."
MsgLoggedIn == "You are already logged in."

VARIABLES
    GENERATE_USERNAME,     \* settings.SOCIALREGISTRATION_GENERATE_USERNAME
    ALLOW_OPENID_SIGNUPS,  \* settings.SOCIALREGISTRATION_ALLOW_OPENID_SIGNUPS
    client,                \* the client class of the deployed views (self.client)
    users,                 \* persisted users, users[pk]
    profiles,              \* persisted profiles, profiles[pk]
    session,               \* session[b]: request.user and the session store of browser b
    req,                   \* the request handled last
    resp,                  \* its response
    events                 \* what it did, in order: saves, authenticate, login, signals

vars == <<GENERATE_USERNAME, ALLOW_OPENID_SIGNUPS, client, users, profiles,
          session, req, resp, events>>
settings == <<GENERATE_USERNAME, ALLOW_OPENID_SIGNUPS, client>>
db == <<users, profiles>>

\* ---- values
EmptySession ==
    [user |-> 0, next |-> <<>>, pclient |-> <<>>,
     suser |-> <<>>, sprofile |-> <<>>, sclient |-> <<>>]

\* self.get_client()(): a client whose handshake is not completed yet
NewClient == [ident |-> 0]

\* self.create_user(): an unsaved user
UnsavedUser == [username |-> "", is_active |-> TRUE, usable_password |-> TRUE]

\* self.create_profile(user, **lookup_kwargs): an unsaved profile
UnsavedProfile(i) == [ident |-> i, user |-> 0]

NoRequest == [view |-> "", method |-> "", b |-> 0, found |-> 0, authd |-> 0]
Request(view, method, b, found, authd) ==
    [view |-> view, method |-> method, b |-> b, found |-> found, authd |-> authd]

Response(kind, arg) == [kind |-> kind, arg |-> arg]

\* an entry of events: what was done, to which user, which profile, which identity
Event(what, u, p, i) == <<what, u, p, i>>

Respond(r, kind, arg, evs) ==
    /\ req' = r
    /\ resp' = Response(kind, arg)
    /\ events' = evs

\* ---- the SocialRegistration mixin, from the specification

\* the stored "next" URL, else the one the request asks for, else the site home
get_next(s, rn) ==
    IF s.next # <<>> THEN s.next[1]
    ELSE IF rn # <<>> THEN rn[1] ELSE LOGIN_REDIRECT_URL

\* the persisted profiles the lookup keys of identity i find
Matches(i) == {p \in DOMAIN profiles : profiles[p].ident = i}

\* get_session_data raises KeyError unless user, profile and client are stored
has_session_data(s) == s.suser # <<>> /\ s.sprofile # <<>> /\ s.sclient # <<>>

delete_session_data(s) ==
    [s EXCEPT !.suser = <<>>, !.sprofile = <<>>, !.sclient = <<>>]

store_session_data(s, u, p, c) ==
    [s EXCEPT !.suser = <<u>>, !.sprofile = <<p>>, !.sclient = <<c>>]

login(s, u) == [s EXCEPT !.user = u]

\* the pluggable username function of (user, profile, client)
generate_username(p) == IF p.ident = 1 THEN "generated-1"
                        ELSE IF p.ident = 2 THEN "generated-2" ELSE "generated-n"

\* The settings are read once, when the module is loaded, and hold any of
\* their values.  The site starts with one user, active or deactivated, whose
\* profile for identity 1 was connected earlier; every browser starts with an
\* empty session, anonymous or logged in as that user through the site's own
\* login.
Init ==
    /\ GENERATE_USERNAME \in BOOLEAN
    /\ ALLOW_OPENID_SIGNUPS \in BOOLEAN
    /\ client \in {"OpenIDClient", "OAuthClient"}
    /\ \E a \in BOOLEAN :
          users = <<[username |-> "admin", is_active |-> a, usable_password |-> TRUE]>>
    /\ profiles = <<[ident |-> 1, user |-> 1]>>
    /\ session \in [Browsers -> {EmptySession, login(EmptySession, 1)}]
    /\ req = NoRequest
    /\ resp = Response("none", "")
    /\ events = <<>>

\* ---- Logout.get
Logout_get(b) ==
    /\ session' = [session EXCEPT ![b] = EmptySession]
    /\ Respond(Request("Logout", "GET", b, 0, 0), "redirect", LOGOUT_REDIRECT_URL, <<>>)
    /\ UNCHANGED <<settings, db>>

\* ---- OAuthRedirect
\* what a call to the identity provider does: it answers, it reports a
\* handshake error, or the connection times out
Outcomes == {"ok", "error", "timeout"}

\* the "next" parameter a request to redirect-start carries
NextParams == {<<AppUrl>>}

\* (variant) request.session['next'] is not written
OAuthRedirect_post_nonext(b, rn, out) ==
    /\ session' = [session EXCEPT ![b].pclient = <<NewClient>>]
    /\ IF out = "ok"
       THEN Respond(Request("OAuthRedirect", "POST", b, 0, 0), "redirect", ProviderUrl,
                    <<Event("get_redirect_url", 0, 0, 0)>>)
       ELSE Respond(Request("OAuthRedirect", "POST", b, 0, 0), "fault", out,
                    <<Event("get_redirect_url", 0, 0, 0)>>)
    /\ UNCHANGED <<settings, db>>

\* OAuthRedirect.post; rn is the "next" parameter of the request, if any.
\* client.get_redirect_url is called outside the try block, so what it raises
\* leaves the view, after the session was written.
OAuthRedirect_post(b, rn, out) ==
    /\ session' = [session EXCEPT ![b] =
                      [@ EXCEPT !.next = <<get_next(session[b], rn)>>,
                                !.pclient = <<NewClient>>]]
    /\ IF out = "ok"
       THEN Respond(Request("OAuthRedirect", "POST", b, 0, 0), "redirect", ProviderUrl,
                    <<Event("get_redirect_url", 0, 0, 0)>>)
       ELSE Respond(Request("OAuthRedirect", "POST", b, 0, 0), "fault", out,
                    <<Event("get_redirect_url", 0, 0, 0)>>)
    /\ UNCHANGED <<settings, db>>

\* OAuthRedirect defines no get: View.dispatch answers 405 Method Not Allowed
OAuthRedirect_get(b) ==
    /\ Respond(Request("OAuthRedirect", "GET", b, 0, 0), "not_allowed", "GET", <<>>)
    /\ UNCHANGED <<settings, db, session>>

\* (variant) the missing session key is not caught as KeyError: a fresh client
\* completes the handshake
OAuthCallback_get_nokey(b, i, out) ==
    LET r == Request("OAuthCallback", "GET", b, 0, 0) IN
    IF out = "ok"
    THEN /\ session' = [session EXCEPT ![b].pclient = <<[ident |-> i]>>]
         /\ Respond(r, "redirect", NextStepUrl, <<Event("complete", 0, 0, i)>>)
         /\ UNCHANGED <<settings, db>>
    ELSE /\ Respond(r, "fault", "NameError", <<Event("complete", 0, 0, 0)>>)
         /\ UNCHANGED <<settings, db, session>>

\* (variant) the completed client is not stored back in the session
OAuthCallback_get_nostore(b, i, out) ==
    LET r == Request("OAuthCallback", "GET", b, 0, 0) IN
    IF session[b].pclient = <<>>
    THEN /\ Respond(r, "error", MsgSessionExpired, <<>>)
         /\ UNCHANGED <<settings, db, session>>
    ELSE IF out = "ok"
    THEN /\ Respond(r, "redirect", NextStepUrl, <<Event("complete", 0, 0, i)>>)
         /\ UNCHANGED <<settings, db, session>>
    ELSE /\ Respond(r, "fault", "NameError", <<Event("complete", 0, 0, 0)>>)
         /\ UNCHANGED <<settings, db, session>>

\* ---- OAuthCallback.get; i is the identity the callback parameters carry.
\* A failure of client.complete that is no KeyError reaches "except error:",
\* whose name is not defined: evaluating it raises NameError out of the view.
OAuthCallback_get(b, i, out) ==
    LET r == Request("OAuthCallback", "GET", b, 0, 0) IN
    IF session[b].pclient = <<>>
    THEN /\ Respond(r, "error", MsgSessionExpired, <<>>)
         /\ UNCHANGED <<settings, db, session>>
    ELSE IF out = "ok"
    THEN /\ session' = [session EXCEPT ![b].pclient = <<[@[1] EXCEPT !.ident = i]>>]
         /\ Respond(r, "redirect", NextStepUrl, <<Event("complete", 0, 0, i)>>)
         /\ UNCHANGED <<settings, db>>
    ELSE /\ Respond(r, "fault", "NameError", <<Event("complete", 0, 0, 0)>>)
         /\ UNCHANGED <<settings, db, session>>

\* ---- SetupCallback.get, one definition per path through it

\* the client stored under the provider's session key
pending(b) == session[b].pclient[1]

\* self.get_lookup_kwargs(request, client): the lookup keys are the identity
\* the completed handshake established
has_lookup(b) == session[b].pclient # <<>> /\ pending(b).ident # 0
get_lookup_kwargs(b) == pending(b).ident

\* the client is not in the session: KeyError, "Session expired."
SC_SessionExpired(b) ==
    /\ session[b].pclient = <<>>
    /\ Respond(Request("SetupCallback", "GET", b, 0, 0), "error", MsgSessionExpired, <<>>)
    /\ UNCHANGED <<settings, db, session>>

\* the handshake of the stored client never completed: no lookup keys can be
\* derived from it, and what get_lookup_kwargs raises leaves the view
SC_NoLookup(b) ==
    /\ session[b].pclient # <<>>
    /\ pending(b).ident = 0
    /\ Respond(Request("SetupCallback", "GET", b, 0, 0), "fault", "get_lookup_kwargs", <<>>)
    /\ UNCHANGED <<settings, db, session>>

\* (variant) the error is answered without delete_session_data
SC_AlreadyConnected_keeps(b, p) ==
    /\ session[b].pclient # <<>> /\ session[b].pclient[1].ident # 0
    /\ session[b].user # 0
    /\ p \in Matches(session[b].pclient[1].ident)
    /\ profiles[p].user # session[b].user
    /\ Respond(Request("SetupCallback", "GET", b, p, 0), "error", MsgAlreadyConnected, <<>>)
    /\ UNCHANGED <<settings, db, session>>

\* logged in, get_profile finds profile p, and p.user is not request.user
SC_AlreadyConnected(b, p) ==
    /\ has_lookup(b)
    /\ session[b].user # 0
    /\ p \in Matches(get_lookup_kwargs(b))
    /\ profiles[p].user # session[b].user
    /\ session' = [session EXCEPT ![b] = delete_session_data(@)]
    /\ Respond(Request("SetupCallback", "GET", b, p, 0), "error", MsgAlreadyConnected,
               <<Event("delete_session_data", 0, 0, 0)>>)
    /\ UNCHANGED <<settings, db>>

\* (variant) the profile found is not reused: another one is saved
SC_Reconnect_dup(b, p) ==
    /\ session[b].pclient # <<>> /\ session[b].pclient[1].ident # 0
    /\ session[b].user # 0
    /\ p \in Matches(session[b].pclient[1].ident)
    /\ profiles[p].user = session[b].user
    /\ Len(profiles) < MaxProfiles
    /\ profiles' = Append(profiles, profiles[p])
    /\ Respond(Request("SetupCallback", "GET", b, p, 0), "redirect",
               get_next(session[b], <<>>),
               <<Event("connect", session[b].user, Len(profiles) + 1,
                       session[b].pclient[1].ident)>>)
    /\ UNCHANGED <<settings, users, session>>

\* logged in, get_profile finds profile p, and p.user is request.user
SC_Reconnect(b, p) ==
    /\ has_lookup(b)
    /\ session[b].user # 0
    /\ p \in Matches(get_lookup_kwargs(b))
    /\ profiles[p].user = session[b].user
    /\ Respond(Request("SetupCallback", "GET", b, p, 0), "redirect",
               get_next(session[b], <<>>),
               <<Event("connect", session[b].user, p, get_lookup_kwargs(b))>>)
    /\ UNCHANGED <<settings, db, session>>

\* (variant) get_or_create_profile without save=True: nothing is persisted
SC_Connect_unsaved(b) ==
    /\ session[b].pclient # <<>> /\ session[b].pclient[1].ident # 0
    /\ session[b].user # 0
    /\ Matches(session[b].pclient[1].ident) = {}
    /\ Respond(Request("SetupCallback", "GET", b, 0, 0), "redirect",
               get_next(session[b], <<>>),
               <<Event("connect", session[b].user, 0, session[b].pclient[1].ident)>>)
    /\ UNCHANGED <<settings, db, session>>

\* logged in, get_profile raises DoesNotExist: get_or_create_profile(save=True)
SC_Connect(b) ==
    /\ has_lookup(b)
    /\ session[b].user # 0
    /\ Matches(get_lookup_kwargs(b)) = {}
    /\ Len(profiles) < MaxProfiles
    /\ profiles' = Append(profiles, [ident |-> get_lookup_kwargs(b), user |-> session[b].user])
    /\ Respond(Request("SetupCallback", "GET", b, 0, 0), "redirect",
               get_next(session[b], <<>>),
               <<Event("save_profile", session[b].user, Len(profiles) + 1, get_lookup_kwargs(b)),
                 Event("connect", session[b].user, Len(profiles) + 1, get_lookup_kwargs(b))>>)
    /\ UNCHANGED <<settings, users, session>>

\* (variant) the test of the setting is inverted
signups_disabled_inverted == ALLOW_OPENID_SIGNUPS /\ client = "OpenIDClient"

\* not ALLOW_OPENID_SIGNUPS and self.client is OpenIDClient
signups_disabled == ~ALLOW_OPENID_SIGNUPS /\ client = "OpenIDClient"

\* anonymous, authenticate finds no user, OpenID signups are closed
SC_SignupsDisabled(b) ==
    /\ has_lookup(b)
    /\ session[b].user = 0
    /\ Matches(get_lookup_kwargs(b)) = {}
    /\ signups_disabled
    /\ Respond(Request("SetupCallback", "GET", b, 0, 0), "error", MsgSignupsDisabled,
               <<Event("authenticate", 0, 0, get_lookup_kwargs(b))>>)
    /\ UNCHANGED <<settings, db, session>>

\* (variant) store_client is left out
SC_Signup_noclient(b) ==
    /\ session[b].pclient # <<>> /\ session[b].pclient[1].ident # 0
    /\ session[b].user = 0
    /\ Matches(session[b].pclient[1].ident) = {}
    /\ ~(~ALLOW_OPENID_SIGNUPS /\ client = "OpenIDClient")
    /\ session' = [session EXCEPT ![b] =
                      [@ EXCEPT !.suser = <<UnsavedUser>>,
                                !.sprofile = <<UnsavedProfile(session[b].pclient[1].ident)>>]]
    /\ Respond(Request("SetupCallback", "GET", b, 0, 0), "redirect", SetupUrl,
               <<Event("authenticate", 0, 0, session[b].pclient[1].ident)>>)
    /\ UNCHANGED <<settings, db>>

\* anonymous, authenticate finds no user: unsaved user and profile go to the
\* session with the client, and the browser is sent to the setup view
SC_Signup(b) ==
    /\ has_lookup(b)
    /\ session[b].user = 0
    /\ Matches(get_lookup_kwargs(b)) = {}
    /\ ~signups_disabled
    /\ session' = [session EXCEPT ![b] =
                      store_session_data(@, UnsavedUser,
                                         UnsavedProfile(get_lookup_kwargs(b)), pending(b))]
    /\ Respond(Request("SetupCallback", "GET", b, 0, 0), "redirect", SetupUrl,
               <<Event("authenticate", 0, 0, get_lookup_kwargs(b))>>)
    /\ UNCHANGED <<settings, db>>

\* (variant) the is_active test is left out: the user is logged in
SC_Inactive_login(b, p) ==
    /\ session[b].pclient # <<>> /\ session[b].pclient[1].ident # 0
    /\ session[b].user = 0
    /\ p \in Matches(session[b].pclient[1].ident)
    /\ ~users[profiles[p].user].is_active
    /\ session' = [session EXCEPT ![b] = login(@, profiles[p].user)]
    /\ Respond(Request("SetupCallback", "GET", b, p, profiles[p].user), "redirect",
               get_next(session[b], <<>>),
               <<Event("authenticate", profiles[p].user, 0, session[b].pclient[1].ident),
                 Event("login", profiles[p].user, 0, 0),
                 Event("login_signal", profiles[p].user, p, session[b].pclient[1].ident)>>)
    /\ UNCHANGED <<settings, db>>

\* anonymous, authenticate finds the owner of profile p, who is not active
SC_Inactive(b, p) ==
    /\ has_lookup(b)
    /\ session[b].user = 0
    /\ p \in Matches(get_lookup_kwargs(b))
    /\ ~users[profiles[p].user].is_active
    /\ Respond(Request("SetupCallback", "GET", b, 0, profiles[p].user), "inactive", "",
               <<Event("authenticate", profiles[p].user, 0, get_lookup_kwargs(b))>>)
    /\ UNCHANGED <<settings, db, session>>

\* (variant) self.login is left out: the signal is sent, the session not bound
SC_Login_nologin(b, p) ==
    /\ session[b].pclient # <<>> /\ session[b].pclient[1].ident # 0
    /\ session[b].user = 0
    /\ p \in Matches(session[b].pclient[1].ident)
    /\ users[profiles[p].user].is_active
    /\ Respond(Request("SetupCallback", "GET", b, p, profiles[p].user), "redirect",
               get_next(session[b], <<>>),
               <<Event("authenticate", profiles[p].user, 0, session[b].pclient[1].ident),
                 Event("login_signal", profiles[p].user, p, session[b].pclient[1].ident)>>)
    /\ UNCHANGED <<settings, db, session>>

\* (variant) the is_authenticated test does not come first: a logged-in
\* session is logged in as the owner of the profile as well
SC_Login_any(b, p) ==
    /\ session[b].pclient # <<>> /\ session[b].pclient[1].ident # 0
    /\ p \in Matches(session[b].pclient[1].ident)
    /\ users[profiles[p].user].is_active
    /\ session' = [session EXCEPT ![b] = login(@, profiles[p].user)]
    /\ Respond(Request("SetupCallback", "GET", b, p, profiles[p].user), "redirect",
               get_next(session[b], <<>>),
               <<Event("authenticate", profiles[p].user, 0, session[b].pclient[1].ident),
                 Event("login", profiles[p].user, 0, 0),
                 Event("login_signal", profiles[p].user, p, session[b].pclient[1].ident)>>)
    /\ UNCHANGED <<settings, db>>

\* anonymous, authenticate finds the owner of profile p, who is active:
\* login, get_profile(user=user, **lookup_kwargs), login signal, redirect
SC_Login(b, p) ==
    /\ has_lookup(b)
    /\ session[b].user = 0
    /\ p \in Matches(get_lookup_kwargs(b))
    /\ users[profiles[p].user].is_active
    /\ session' = [session EXCEPT ![b] = login(@, profiles[p].user)]
    /\ Respond(Request("SetupCallback", "GET", b, p, profiles[p].user), "redirect",
               get_next(session[b], <<>>),
               <<Event("authenticate", profiles[p].user, 0, get_lookup_kwargs(b)),
                 Event("login", profiles[p].user, 0, 0),
                 Event("login_signal", profiles[p].user, p, get_lookup_kwargs(b))>>)
    /\ UNCHANGED <<settings, db>>

SetupCallback_get(b) ==
    \/ SC_SessionExpired(b)
    \/ SC_NoLookup(b)
    \/ \E p \in DOMAIN profiles : SC_AlreadyConnected(b, p)
    \/ \E p \in DOMAIN profiles : SC_Reconnect(b, p)
    \/ SC_Connect(b)
    \/ SC_SignupsDisabled(b)
    \/ SC_Signup(b)
    \/ \E p \in DOMAIN profiles : SC_Inactive(b, p)
    \/ \E p \in DOMAIN profiles : SC_Login(b, p)

\* ---- Setup

\* the users the lookup keys of identity i resolve to, given the profiles ps
\* (the authentication attempt keyed by provider identity)
authenticate(ps, i) == {ps[q].user : q \in {q \in DOMAIN ps : ps[q].ident = i}}

\* (variant) self.login is called before send_connect_signal
finalize_login_first(r, b, username, usable, a) ==
    LET u == Len(users) + 1
        p == Len(profiles) + 1
        i == session[b].sprofile[1].ident
        ps == Append(profiles, [session[b].sprofile[1] EXCEPT !.user = u])
    IN  /\ Len(users) < MaxUsers
        /\ Len(profiles) < MaxProfiles
        /\ users' = Append(users, [session[b].suser[1] EXCEPT
                                      !.username = username, !.usable_password = usable])
        /\ profiles' = ps
        /\ a \in {ps[q].user : q \in {q \in DOMAIN ps : ps[q].ident = i}}
        /\ session' = [session EXCEPT ![b] = delete_session_data(login(@, a))]
        /\ Respond([r EXCEPT !.found = p, !.authd = a], "redirect",
                   get_next(session[b], <<>>),
                   <<Event("save_user", u, 0, 0),
                     Event("save_profile", u, p, i),
                     Event("authenticate", a, 0, i),
                     Event("login", a, 0, 0),
                     Event("connect", a, p, session[b].sclient[1].ident),
                     Event("login_signal", a, p, session[b].sclient[1].ident),
                     Event("delete_session_data", 0, 0, 0)>>)
        /\ UNCHANGED settings

\* What generate_username_and_redirect (lines 99-114) and Setup.post (lines
\* 161-173) share once the username and password state are decided: user
\* saved, profile saved with profile.user = user, profile.authenticate()
\* (which resolves user a), connect signal, login, login signal, pending
\* session data deleted, redirect to "next".
finalize(r, b, username, usable, a) ==
    LET u == Len(users) + 1
        p == Len(profiles) + 1
        i == session[b].sprofile[1].ident
        ps == Append(profiles, [session[b].sprofile[1] EXCEPT !.user = u])
    IN  /\ Len(users) < MaxUsers
        /\ Len(profiles) < MaxProfiles
        /\ users' = Append(users, [session[b].suser[1] EXCEPT
                                      !.username = username, !.usable_password = usable])
        /\ profiles' = ps
        /\ a \in authenticate(ps, i)
        /\ session' = [session EXCEPT ![b] = delete_session_data(login(@, a))]
        /\ Respond([r EXCEPT !.found = p, !.authd = a], "redirect",
                   get_next(session[b], <<>>),
                   <<Event("save_user", u, 0, 0),
                     Event("save_profile", u, p, i),
                     Event("authenticate", a, 0, i),
                     Event("connect", a, p, session[b].sclient[1].ident),
                     Event("login", a, 0, 0),
                     Event("login_signal", a, p, session[b].sclient[1].ident),
                     Event("delete_session_data", 0, 0, 0)>>)
        /\ UNCHANGED settings

\* Setup.generate_username_and_redirect for the session of browser b
generate_username_and_redirect(b, a) ==
    finalize(Request("Setup", "GET", b, 0, 0), b,
             generate_username(session[b].sprofile[1]), FALSE, a)

\* (variant) the KeyError of get_session_data is not handled: without pending
\* data the form is rendered all the same
Setup_get_nocheck(b) ==
    LET r == Request("Setup", "GET", b, 0, 0) IN
    IF session[b].user # 0
    THEN /\ Respond(r, "redirect", get_next(session[b], <<>>), <<>>)
         /\ UNCHANGED <<settings, db, session>>
    ELSE IF GENERATE_USERNAME /\ has_session_data(session[b])
    THEN \E a \in 1..MaxUsers : generate_username_and_redirect(b, a)
    ELSE /\ Respond(r, "render", "form", <<>>)
         /\ UNCHANGED <<settings, db, session>>

\* Setup.get
Setup_get(b) ==
    LET r == Request("Setup", "GET", b, 0, 0) IN
    IF session[b].user # 0
    THEN /\ Respond(r, "redirect", get_next(session[b], <<>>), <<>>)
         /\ UNCHANGED <<settings, db, session>>
    ELSE IF ~has_session_data(session[b])
    THEN /\ Respond(r, "error", MsgMissingGet, <<>>)
         /\ UNCHANGED <<settings, db, session>>
    ELSE IF GENERATE_USERNAME
    THEN \E a \in 1..MaxUsers : generate_username_and_redirect(b, a)
    ELSE /\ Respond(r, "render", "form", <<>>)
         /\ UNCHANGED <<settings, db, session>>

\* the usernames a visitor submits in the setup form
FormNames == {"alice"}

\* (variant) the is_authenticated test is left out
Setup_post_noguard(b, valid, name) ==
    LET r == Request("Setup", "POST", b, 0, 0) IN
    IF ~has_session_data(session[b])
    THEN /\ Respond(r, "error", MsgMissingPost, <<>>)
         /\ UNCHANGED <<settings, db, session>>
    ELSE IF ~valid
    THEN /\ Respond(r, "render", "form-errors", <<Event("form_invalid", 0, 0, 0)>>)
         /\ UNCHANGED <<settings, db, session>>
    ELSE \E a \in 1..MaxUsers :
            finalize(r, b, name, session[b].suser[1].usable_password, a)

\* (variant) an invalid submission drops the pending session data
Setup_post_invalid_clears(b, valid, name) ==
    LET r == Request("Setup", "POST", b, 0, 0) IN
    IF session[b].user # 0
    THEN /\ Respond(r, "error", MsgLoggedIn, <<>>)
         /\ UNCHANGED <<settings, db, session>>
    ELSE IF ~has_session_data(session[b])
    THEN /\ Respond(r, "error", MsgMissingPost, <<>>)
         /\ UNCHANGED <<settings, db, session>>
    ELSE IF ~valid
    THEN /\ session' = [session EXCEPT ![b] = delete_session_data(@)]
         /\ Respond(r, "render", "form-errors", <<Event("form_invalid", 0, 0, 0)>>)
         /\ UNCHANGED <<settings, db>>
    ELSE \E a \in 1..MaxUsers :
            finalize(r, b, name, session[b].suser[1].usable_password, a)

\* Setup.post; valid is what form.is_valid() answers for the submission, name
\* the username submitted
Setup_post(b, valid, name) ==
    LET r == Request("Setup", "POST", b, 0, 0) IN
    IF session[b].user # 0
    THEN /\ Respond(r, "error", MsgLoggedIn, <<>>)
         /\ UNCHANGED <<settings, db, session>>
    ELSE IF ~has_session_data(session[b])
    THEN /\ Respond(r, "error", MsgMissingPost, <<>>)
         /\ UNCHANGED <<settings, db, session>>
    ELSE IF ~valid
    THEN /\ Respond(r, "render", "form-errors", <<Event("form_invalid", 0, 0, 0)>>)
         /\ UNCHANGED <<settings, db, session>>
    ELSE \E a \in 1..MaxUsers :
            finalize(r, b, name, session[b].suser[1].usable_password, a)

Next ==
    \/ \E b \in Browsers : Logout_get(b)
    \/ \E b \in Browsers, rn \in NextParams, out \in Outcomes :
          OAuthRedirect_post(b, rn, out)
    \/ \E b \in Browsers : OAuthRedirect_get(b)
    \/ \E b \in Browsers, i \in Idents, out \in Outcomes : OAuthCallback_get(b, i, out)
    \/ \E b \in Browsers : SetupCallback_get(b)
    \/ \E b \in Browsers : Setup_get(b)
    \/ \E b \in Browsers, valid \in BOOLEAN, name \in FormNames : Setup_post(b, valid, name)

Spec == Init /\ [][Next]_vars

\* ======================================================================
\* Properties.  A property of one request is an action property: the
\* unprimed variables are the state the request found, the primed ones the
\* state it left, req' names the request and resp' its response.
\* ======================================================================

\* the "next" URL stored in the session of browser b, else the site home
StoredNext(b) == IF session[b].next = <<>> THEN LOGIN_REDIRECT_URL ELSE session[b].next[1]

\* how many entries of the event list evs are of kind what
CountEv(evs, what) == Cardinality({k \in DOMAIN evs : evs[k][1] = what})

\* the step handles a decision-flow request of a browser whose session holds
\* a client with a completed handshake
DecisionStep == /\ req'.view = "SetupCallback"
                /\ session[req'.b].pclient # <<>>
                /\ session[req'.b].pclient[1].ident # 0

\* the identity the lookup keys of that request name
LookupIdent == session[req'.b].pclient[1].ident

\* the pending user, profile and client are not in the session s
NoPending(s) == s.suser = <<>> /\ s.sprofile = <<>> /\ s.sclient = <<>>

\* C1: in the decision flow, when the session is authenticated as U and the
\* lookup finds a profile owned by another user V, the request ends with the
\* "already connected to another user account" error and no redirect, the
\* pending session state is cleared, and the persisted profiles (and their
\* owners) are unchanged.
C1_AlreadyConnected ==
    [][ ( /\ DecisionStep
          /\ session[req'.b].user # 0
          /\ req'.found \in DOMAIN profiles
          /\ profiles[req'.found].user # session[req'.b].user )
        => ( /\ resp' = Response("error", MsgAlreadyConnected)
             /\ NoPending(session'[req'.b])
             /\ profiles' = profiles
             /\ users' = users ) ]_vars

C1_Witness ==
    /\ req.view = "SetupCallback"
    /\ session[req.b].user # 0
    /\ req.found \in DOMAIN profiles
    /\ profiles[req.found].user # session[req.b].user
    /\ resp = Response("error", MsgAlreadyConnected)
    /\ events = <<Event("delete_session_data", 0, 0, 0)>>

\* C2: in the decision flow, when the session is authenticated as U and the
\* lookup finds a profile owned by U, the request redirects to "next" and
\* creates no profile: the profiles of that identity are the same before and
\* after, the profile found is still owned by U, and the session is left as
\* it was, so that repeating the request meets the same case again.
C2_IdempotentReconnect ==
    [][ ( /\ DecisionStep
          /\ session[req'.b].user # 0
          /\ req'.found \in DOMAIN profiles
          /\ profiles[req'.found].user = session[req'.b].user )
        => ( /\ resp' = Response("redirect", StoredNext(req'.b))
             /\ profiles' = profiles
             /\ users' = users
             /\ Cardinality({q \in DOMAIN profiles' : profiles'[q].ident = LookupIdent})
                  = Cardinality({q \in DOMAIN profiles : profiles[q].ident = LookupIdent})
             /\ profiles'[req'.found].user = session[req'.b].user
             /\ session' = session ) ]_vars

C2_Witness ==
    /\ req.view = "SetupCallback"
    /\ session[req.b].user # 0
    /\ req.found \in DOMAIN profiles
    /\ profiles[req.found].user = session[req.b].user
    /\ resp.kind = "redirect"
    /\ Cardinality({q \in DOMAIN profiles :
                       profiles[q].ident = session[req.b].pclient[1].ident}) = 1

\* C3: in the decision flow, when the session is authenticated as U and no
\* profile exists for the lookup keys, exactly one new profile for those keys
\* owned by U is persisted, one connect notification is emitted with U, that
\* profile and the client, and the response is a redirect to the stored
\* "next" URL.
C3_ConnectNew ==
    [][ ( /\ DecisionStep
          /\ session[req'.b].user # 0
          /\ \A q \in DOMAIN profiles : profiles[q].ident # LookupIdent )
        => ( /\ profiles' = Append(profiles, [ident |-> LookupIdent,
                                              user |-> session[req'.b].user])
             /\ users' = users
             /\ CountEv(events', "connect") = 1
             /\ \E k \in DOMAIN events' :
                   events'[k] = Event("connect", session[req'.b].user,
                                      Len(profiles) + 1, LookupIdent)
             /\ resp' = Response("redirect", StoredNext(req'.b)) ) ]_vars

C3_Witness ==
    /\ req.view = "SetupCallback"
    /\ session[req.b].user # 0
    /\ req.found = 0
    /\ resp.kind = "redirect"
    /\ profiles[Len(profiles)] = [ident |-> session[req.b].pclient[1].ident,
                                  user |-> session[req.b].user]
    /\ events[Len(events)] = Event("connect", session[req.b].user, Len(profiles),
                                   session[req.b].pclient[1].ident)

\* C4: in the decision flow, for an anonymous session whose lookup keys
\* resolve to an active user, the session becomes bound to that user, the
\* response is a redirect to "next", and the login notification is emitted
\* exactly once in that request.
C4_LoginActive ==
    [][ ( /\ DecisionStep
          /\ session[req'.b].user = 0
          /\ req'.authd \in DOMAIN users
          /\ users[req'.authd].is_active )
        => ( /\ session'[req'.b].user = req'.authd
             /\ resp' = Response("redirect", StoredNext(req'.b))
             /\ CountEv(events', "login_signal") = 1
             /\ \E k \in DOMAIN events' :
                   /\ events'[k][1] = "login_signal"
                   /\ events'[k][2] = req'.authd ) ]_vars

C4_Witness ==
    /\ req.view = "SetupCallback"
    /\ req.authd \in DOMAIN users
    /\ users[req.authd].is_active
    /\ session[req.b].user = req.authd
    /\ resp.kind = "redirect"
    /\ CountEv(events, "login_signal") = 1

\* C5: in the decision flow, for an anonymous session whose lookup keys
\* resolve to an inactive user, the session stays anonymous (login is not
\* performed) and the inactive-account response is rendered, not a redirect.
C5_Inactive ==
    [][ ( /\ DecisionStep
          /\ session[req'.b].user = 0
          /\ req'.authd \in DOMAIN users
          /\ ~users[req'.authd].is_active )
        => ( /\ session'[req'.b].user = 0
             /\ CountEv(events', "login") = 0
             /\ resp'.kind = "inactive" ) ]_vars

C5_Witness ==
    /\ req.view = "SetupCallback"
    /\ req.authd \in DOMAIN users
    /\ ~users[req.authd].is_active
    /\ session[req.b].user = 0
    /\ resp.kind = "inactive"

\* C6: in the decision flow, for an anonymous session whose lookup keys
\* resolve to no user, when the client is the OpenID variant and OpenID
\* signups are disabled, the request fails with the signups-disabled error,
\* no user or profile is created (neither persisted nor stored in the
\* session), and there is no redirect to the Setup step.
C6_SignupsDisabled ==
    [][ ( /\ DecisionStep
          /\ session[req'.b].user = 0
          /\ \A q \in DOMAIN profiles : profiles[q].ident # LookupIdent
          /\ client = "OpenIDClient"
          /\ ~ALLOW_OPENID_SIGNUPS )
        => ( /\ resp' = Response("error", MsgSignupsDisabled)
             /\ users' = users
             /\ profiles' = profiles
             /\ session' = session ) ]_vars

C6_Witness ==
    /\ req.view = "SetupCallback"
    /\ session[req.b].user = 0
    /\ session[req.b].pclient # <<>>
    /\ \A q \in DOMAIN profiles : profiles[q].ident # session[req.b].pclient[1].ident
    /\ client = "OpenIDClient"
    /\ ~ALLOW_OPENID_SIGNUPS
    /\ resp = Response("error", MsgSignupsDisabled)

\* C7: in the decision flow, for an anonymous session whose lookup keys
\* resolve to no user and to which the OpenID signup gate does not apply
\* (signups enabled, or the client is not the OpenID variant), the response
\* is a redirect to the Setup step, the session afterwards holds the unsaved
\* user, the unsaved profile and the client, the session stays anonymous, and
\* no user or profile is persisted.
C7_BeginSignup ==
    [][ ( /\ DecisionStep
          /\ session[req'.b].user = 0
          /\ \A q \in DOMAIN profiles : profiles[q].ident # LookupIdent
          /\ (ALLOW_OPENID_SIGNUPS \/ client # "OpenIDClient") )
        => ( /\ resp' = Response("redirect", SetupUrl)
             /\ session'[req'.b].suser = <<UnsavedUser>>
             /\ session'[req'.b].sprofile = <<[ident |-> LookupIdent, user |-> 0]>>
             /\ session'[req'.b].sclient = session[req'.b].pclient
             /\ session'[req'.b].user = 0
             /\ users' = users
             /\ profiles' = profiles ) ]_vars

C7_Witness ==
    /\ req.view = "SetupCallback"
    /\ resp = Response("redirect", SetupUrl)
    /\ session[req.b].user = 0
    /\ session[req.b].suser # <<>>
    /\ session[req.b].sprofile # <<>>
    /\ session[req.b].sclient = session[req.b].pclient

\* C10: in callback-complete, when the session holds no pending client under
\* the provider's session key, the response is the rendered error "Session
\* expired.", there is no redirect, client.complete is not called, and the
\* session store is unchanged.
C10_CallbackSessionExpired ==
    [][ ( /\ req'.view = "OAuthCallback"
          /\ session[req'.b].pclient = <<>> )
        => ( /\ resp' = Response("error", MsgSessionExpired)
             /\ CountEv(events', "complete") = 0
             /\ session' = session ) ]_vars

C10_Witness ==
    /\ req.view = "OAuthCallback"
    /\ session[req.b].pclient = <<>>
    /\ resp = Response("error", MsgSessionExpired)

\* the step handles a Setup GET in auto-generate mode for an anonymous
\* session that holds the pending user, profile and client
AutoGenerateStep == /\ req'.view = "Setup"
                    /\ req'.method = "GET"
                    /\ GENERATE_USERNAME
                    /\ session[req'.b].user = 0
                    /\ ~NoPending(session[req'.b])

\* what C8 states of such a step
AutoGenerateResult ==
    /\ resp' = Response("redirect", StoredNext(req'.b))
    /\ users' = Append(users, [username |-> generate_username(session[req'.b].sprofile[1]),
                               is_active |-> TRUE,
                               usable_password |-> FALSE])
    /\ profiles' = Append(profiles, [ident |-> session[req'.b].sprofile[1].ident,
                                     user |-> Len(users) + 1])
    /\ session'[req'.b].user = Len(users) + 1
    /\ NoPending(session'[req'.b])

\* C8: Setup GET in auto-generate mode, for an anonymous session holding
\* (user, profile, client): the response is a redirect to "next", the user is
\* persisted with the generated username and no usable password, the profile
\* is persisted owned by that user, the session is bound to that user, and
\* the pending user, profile and client are no longer in the session.
C8_AutoGenerate == [][ AutoGenerateStep => AutoGenerateResult ]_vars

\* C8, where it does hold: when no profile of the pending identity was
\* persisted since the decision flow stored it, the step does all of the above.
C8_AutoGenerateFreshIdentity ==
    [][ ( /\ AutoGenerateStep
          /\ \A q \in DOMAIN profiles :
                profiles[q].ident # session[req'.b].sprofile[1].ident )
        => AutoGenerateResult ]_vars

\* C9: after any sequence of requests, for every identity at most one
\* persisted profile exists, and every persisted profile is connected to
\* exactly one user, which never changes once set.
C9_OneProfilePerIdentity ==
    [][ /\ \A p, q \in DOMAIN profiles' :
              profiles'[p].ident = profiles'[q].ident => p = q
        /\ \A p \in DOMAIN profiles' : profiles'[p].user \in DOMAIN users'
        /\ \A p \in DOMAIN profiles :
              p \in DOMAIN profiles' /\ profiles'[p].user = profiles[p].user ]_vars

\* C9, the part that holds: no request removes a persisted profile or changes
\* its identity or its owner, and every owner is a persisted user.
C9_OwnerNeverChanges ==
    [][ /\ \A p \in DOMAIN profiles' : profiles'[p].user \in DOMAIN users'
        /\ \A p \in DOMAIN profiles :
              p \in DOMAIN profiles' /\ profiles'[p] = profiles[p] ]_vars

\* the kinds of the entries of the event list evs, in order
Kinds(evs) == [k \in DOMAIN evs |-> evs[k][1]]

\* C11: in callback-complete, when the pending client is in the session and
\* client.complete fails with a handshake error or a timeout, the failure is
\* recovered in the view: the response is a rendered error, and no exception
\* leaves the view.  So a callback with the client in the session ends with
\* the redirect to the next step or with a rendered error.
C11_CallbackFailureRecovered ==
    [][ ( /\ req'.view = "OAuthCallback"
          /\ session[req'.b].pclient # <<>> )
        => ( \/ resp' = Response("redirect", NextStepUrl)
             \/ resp'.kind = "error" ) ]_vars

\* C12: in redirect-start, when client.get_redirect_url raises a handshake
\* error or a timeout, the failure is caught and rendered as an error
\* response.  So a redirect-start request ends with the redirect to the
\* provider or with a rendered error.
C12_RedirectFailureRecovered ==
    [][ ( /\ req'.view = "OAuthRedirect"
          /\ req'.method = "POST" )
        => ( \/ resp' = Response("redirect", ProviderUrl)
             \/ resp'.kind = "error" ) ]_vars

\* the methods by which callback-complete, the decision flow and the Setup
\* step are entered
OtherMethods ==
    /\ req'.view \in {"OAuthCallback", "SetupCallback"} => req'.method = "GET"
    /\ req'.view = "Setup" => req'.method \in {"GET", "POST"}

\* C13 as stated: a GET request to redirect-start starts the handshake (client
\* and "next" stored in the session, redirect to the provider);
\* callback-complete and the decision flow are entered by GET; the Setup step
\* handles GET and POST.
C13_GetStartsHandshake ==
    [][ /\ ( req'.view = "OAuthRedirect" /\ req'.method = "GET" )
           => ( /\ session'[req'.b].pclient = <<NewClient>>
                /\ session'[req'.b].next # <<>>
                /\ resp' = Response("redirect", ProviderUrl) )
        /\ OtherMethods ]_vars

\* C13 amended: it is a POST request to redirect-start that starts the
\* handshake: it stores a new client and "next" in the session (keeping a
\* "next" already stored) and answers with the redirect to the provider
\* unless get_redirect_url raised; a GET request to redirect-start is
\* answered "method not allowed" and stores nothing.  The other views are
\* entered as stated.
C13_PostStartsHandshake ==
    [][ /\ ( req'.view = "OAuthRedirect" /\ req'.method = "POST" )
           => ( /\ session'[req'.b].pclient = <<NewClient>>
                /\ session'[req'.b].next # <<>>
                /\ session[req'.b].next # <<>>
                      => session'[req'.b].next = session[req'.b].next
                /\ \/ resp' = Response("redirect", ProviderUrl)
                   \/ resp'.kind = "fault" )
        /\ ( req'.view = "OAuthRedirect" /\ req'.method = "GET" )
           => ( /\ resp'.kind = "not_allowed"
                /\ session' = session )
        /\ OtherMethods ]_vars

C13_Witness ==
    /\ req.view = "OAuthRedirect"
    /\ req.method = "POST"
    /\ resp = Response("redirect", ProviderUrl)
    /\ session[req.b].pclient = <<NewClient>>
    /\ session[req.b].next = <<AppUrl>>

\* C14: the outcome of the decision flow is that of the first condition that
\* matches, in the order: client missing, session authenticated, identity
\* resolves to a user, identity unknown.  With the client missing the only
\* effect is the session-expired error, for anonymous and authenticated
\* sessions alike; an authenticated session is never logged in as, or bound
\* to, another user, and is never sent to the Setup step; an anonymous
\* session whose identity resolves to a user is never sent to the Setup step.
C14_FirstMatchWins ==
    [][ req'.view = "SetupCallback"
        => ( /\ session[req'.b].pclient = <<>>
                => ( /\ resp' = Response("error", MsgSessionExpired)
                     /\ events' = <<>>
                     /\ session' = session
                     /\ users' = users
                     /\ profiles' = profiles )
             /\ ( session[req'.b].pclient # <<>> /\ session[req'.b].user # 0 )
                => ( /\ session'[req'.b].user = session[req'.b].user
                     /\ CountEv(events', "authenticate") = 0
                     /\ CountEv(events', "login") = 0
                     /\ CountEv(events', "login_signal") = 0
                     /\ resp' # Response("error", MsgSessionExpired)
                     /\ resp' # Response("redirect", SetupUrl)
                     /\ resp'.kind # "inactive" )
             /\ ( /\ session[req'.b].pclient # <<>>
                  /\ session[req'.b].pclient[1].ident # 0
                  /\ session[req'.b].user = 0
                  /\ \E q \in DOMAIN profiles : profiles[q].ident = LookupIdent )
                => ( /\ resp'.kind = "inactive" \/ resp' = Response("redirect", StoredNext(req'.b))
                     /\ NoPending(session[req'.b]) => NoPending(session'[req'.b])
                     /\ users' = users
                     /\ profiles' = profiles )
             /\ ( /\ session[req'.b].pclient # <<>>
                  /\ session[req'.b].pclient[1].ident # 0
                  /\ session[req'.b].user = 0
                  /\ \A q \in DOMAIN profiles : profiles[q].ident # LookupIdent )
                => ( /\ \/ resp' = Response("error", MsgSignupsDisabled)
                        \/ resp' = Response("redirect", SetupUrl)
                     /\ session'[req'.b].user = 0 ) ) ]_vars

\* an authenticated session without the client got the session-expired error
C14_Witness ==
    /\ req.view = "SetupCallback"
    /\ session[req.b].user # 0
    /\ session[req.b].pclient = <<>>
    /\ resp = Response("error", MsgSessionExpired)
    /\ events = <<>>

\* C15: a GET to the Setup step by an authenticated session redirects to
\* "next" and does nothing else; a POST by an authenticated session yields the
\* "already logged in" error and the form is not processed: no user or
\* profile is persisted, no notification is emitted, and the session (its
\* user and its pending data) is unchanged.
C15_SetupGuard ==
    [][ ( /\ req'.view = "Setup"
          /\ session[req'.b].user # 0 )
        => ( /\ req'.method = "GET" => resp' = Response("redirect", StoredNext(req'.b))
             /\ req'.method = "POST" => resp' = Response("error", MsgLoggedIn)
             /\ events' = <<>>
             /\ users' = users
             /\ profiles' = profiles
             /\ session' = session ) ]_vars

C15_Witness ==
    /\ req.view = "Setup"
    /\ req.method = "POST"
    /\ session[req.b].user # 0
    /\ ~NoPending(session[req.b])
    /\ resp = Response("error", MsgLoggedIn)

\* C16: a Setup GET or POST by an anonymous session whose pending user,
\* profile and client are missing renders an error response, in auto-generate
\* and in form mode; nothing is persisted, the session stays anonymous and no
\* notification is emitted.
C16_SetupMissingData ==
    [][ ( /\ req'.view = "Setup"
          /\ session[req'.b].user = 0
          /\ NoPending(session[req'.b]) )
        => ( /\ req'.method = "GET" => resp' = Response("error", MsgMissingGet)
             /\ req'.method = "POST" => resp' = Response("error", MsgMissingPost)
             /\ events' = <<>>
             /\ users' = users
             /\ profiles' = profiles
             /\ session' = session ) ]_vars

C16_Witness ==
    /\ req.view = "Setup"
    /\ req.method = "GET"
    /\ GENERATE_USERNAME
    /\ session[req.b].user = 0
    /\ NoPending(session[req.b])
    /\ resp = Response("error", MsgMissingGet)

\* C17: a Setup POST with an invalid submission re-renders the form with
\* errors and changes nothing else: nothing is persisted, no notification is
\* emitted, the session stays anonymous and keeps the pending user, profile
\* and client, which is the state in which a valid POST completes the signup.
C17_InvalidSubmission ==
    [][ ( /\ req'.view = "Setup"
          /\ req'.method = "POST"
          /\ session[req'.b].user = 0
          /\ ~NoPending(session[req'.b])
          /\ CountEv(events', "form_invalid") = 1 )
        => ( /\ resp' = Response("render", "form-errors")
             /\ events' = <<Event("form_invalid", 0, 0, 0)>>
             /\ users' = users
             /\ profiles' = profiles
             /\ session' = session
             /\ session'[req'.b].user = 0
             /\ ~NoPending(session'[req'.b]) ) ]_vars

C17_Witness ==
    /\ req.view = "Setup"
    /\ req.method = "POST"
    /\ resp = Response("render", "form-errors")
    /\ session[req.b].user = 0
    /\ ~NoPending(session[req.b])

\* the step finalizes a signup: a Setup GET in auto-generate mode, or a Setup
\* POST with a valid submission, by an anonymous session with pending data
FinalizeStep ==
    /\ req'.view = "Setup"
    /\ session[req'.b].user = 0
    /\ ~NoPending(session[req'.b])
    /\ \/ req'.method = "GET" /\ GENERATE_USERNAME
       \/ req'.method = "POST" /\ CountEv(events', "form_invalid") = 0

\* C18: on every successful Setup finalization the steps occur in the order:
\* user persisted, profile persisted, authenticate, connect notification,
\* login, login notification, pending session state cleared, redirect to
\* "next"; each notification is emitted exactly once.
C18_FinalizationOrder ==
    [][ FinalizeStep
        => ( /\ Kinds(events') = <<"save_user", "save_profile", "authenticate", "connect",
                                   "login", "login_signal", "delete_session_data">>
             /\ Len(users') = Len(users) + 1
             /\ Len(profiles') = Len(profiles) + 1
             /\ NoPending(session'[req'.b])
             /\ resp' = Response("redirect", StoredNext(req'.b)) ) ]_vars

C18_Witness ==
    /\ req.view = "Setup"
    /\ req.method = "POST"
    /\ resp.kind = "redirect"
    /\ Len(events) = 7
    /\ events[4][1] = "connect"
    /\ events[5][1] = "login"
    /\ session[req.b].user # 0

\* C19: redirect-start stores a new client and "next" in the session and
\* answers, when the client gives the authorization URL, with the redirect to
\* it; a callback-complete in which client.complete succeeds leaves under the
\* provider's session key the client that was there, completed with the
\* callback parameters, leaves the stored "next" in the session and answers
\* with the redirect to the next-step URL.
C19_RedirectThenCallback ==
    [][ /\ ( req'.view = "OAuthRedirect" /\ req'.method = "POST" )
           => ( /\ session'[req'.b].pclient = <<NewClient>>
                /\ session'[req'.b].next # <<>>
                /\ resp'.kind = "redirect" => resp'.arg = ProviderUrl )
        /\ \A i \in Idents :
              ( /\ req'.view = "OAuthCallback"
                /\ session[req'.b].pclient # <<>>
                /\ events' = <<Event("complete", 0, 0, i)>> )
              => ( /\ session'[req'.b].pclient
                        = <<[session[req'.b].pclient[1] EXCEPT !.ident = i]>>
                   /\ session[req'.b].next # <<>>
                   /\ session'[req'.b].next = session[req'.b].next
                   /\ resp' = Response("redirect", NextStepUrl) ) ]_vars

C19_Witness ==
    /\ req.view = "OAuthCallback"
    /\ resp = Response("redirect", NextStepUrl)
    /\ session[req.b].pclient # <<>>
    /\ session[req.b].pclient[1].ident # 0
    /\ events = <<Event("complete", 0, 0, session[req.b].pclient[1].ident)>>
    /\ session[req.b].next = <<AppUrl>>

\* every login notification of the last request follows a login of the same
\* user in that request, and the session is bound to that user
LoginSignalsFollowLogin ==
    \A k \in DOMAIN events :
       events[k][1] = "login_signal"
       => /\ \E j \in 1..(k - 1) : events[j] = Event("login", events[k][2], 0, 0)
          /\ session[req.b].user = events[k][2]

\* no notification in a request that ends in an error, the inactive response,
\* a form (re-)render, a fault, or the redirect to the Setup step
NoSignalsOnFailure ==
    ( resp.kind \in {"error", "inactive", "render", "fault", "not_allowed"}
      \/ resp = Response("redirect", SetupUrl) )
    => ( CountEv(events, "connect") = 0 /\ CountEv(events, "login_signal") = 0 )

\* C20: notifications are emitted only on success: a login notification for U
\* only after the session was bound to U in the same request, a connect
\* notification for (U, profile) only when that profile is persisted and
\* owned by U, and none in a request that ends in an error response, the
\* inactive response, a form re-render or the redirect to the Setup step.
C20_NotificationsOnlyOnSuccess ==
    /\ LoginSignalsFollowLogin
    /\ \A k \in DOMAIN events :
          events[k][1] = "connect"
          => /\ events[k][3] \in DOMAIN profiles
             /\ profiles[events[k][3]].user = events[k][2]
    /\ NoSignalsOnFailure

\* C20, where it does hold: the login and failure parts always, and the
\* connect part with "owned by a user the profile's identity resolves to"
\* in place of "owned by U".
C20_NotificationsResolvedOwner ==
    /\ LoginSignalsFollowLogin
    /\ \A k \in DOMAIN events :
          events[k][1] = "connect"
          => /\ events[k][3] \in DOMAIN profiles
             /\ \E q \in DOMAIN profiles :
                   /\ profiles[q].ident = profiles[events[k][3]].ident
                   /\ profiles[q].user = events[k][2]
    /\ NoSignalsOnFailure
====
